---- MODULE Spec2Model ----
(***************************************************************************)
(* Window-based Least Significant Bits (W-LSB) encoder, src/common/wlsb.c. *)
(*                                                                         *)
(* The encoder object (struct c_wlsb) is the variables window_width, bits, *)
(* p, window, oldest and next.  The other variables are history variables  *)
(* (the call just made, the order of insertion) that                      *)
(* the properties are stated with; no action reads them to decide what the *)
(* encoder does.                                                           *)
(***************************************************************************)
EXTENDS Integers, Sequences, FiniteSets

\* ------------------------------------------------------------------------
\* Bounds of the model
\* ------------------------------------------------------------------------

\* window widths 1 .. MaxWidth are created
MaxWidth == 3
\* the bit budgets 1 and MaxBits are created
MaxBits == 2
\* number of c_add_wlsb calls in one behaviour
MaxInserts == 4
\* sequence numbers 1 .. MaxSN are used by the callers
MaxSN == 3

\* ------------------------------------------------------------------------
\* uint32_t arithmetic.  A 32-bit unsigned value is the pair <<high, low>>
\* of its two 16-bit halves, so that the arithmetic keeps its real width.
\* ------------------------------------------------------------------------

Half == 65536

U32Zero == <<0, 0>>
U32One == <<0, 1>>
U32Max == <<65535, 65535>>

\* a + b modulo 2^32
U32Add(a, b) ==
    LET lo == a[2] + b[2]
    IN  <<(a[1] + b[1] + (lo \div Half)) % Half, lo % Half>>

\* a - b modulo 2^32
U32Sub(a, b) ==
    LET lo == a[2] - b[2]
        borrow == IF lo < 0 THEN 1 ELSE 0
    IN  <<(a[1] - b[1] - borrow) % Half, lo % Half>>

\* a < b and a <= b on unsigned 32-bit values
U32Lt(a, b) == a[1] < b[1] \/ (a[1] = b[1] /\ a[2] < b[2])
U32Le(a, b) == a = b \/ U32Lt(a, b)

\* conversion of the int32_t shift parameter to uint32_t (the usual
\* arithmetic conversion of "v_ref - p"), for |p| < 2^16
U32FromInt32(n) == IF n >= 0 THEN <<0, n>> ELSE <<Half - 1, Half + n>>

\* 2^k modulo 2^32
U32Pow2(k) ==
    IF k < 16 THEN <<0, 2^k>>
    ELSE IF k < 32 THEN <<2^(k - 16), 0>>
    ELSE U32Zero

\* ------------------------------------------------------------------------
\* Inputs of the callers
\* ------------------------------------------------------------------------

\* sequence numbers handed to c_add_wlsb and c_ack_sn_wlsb
SNs == 1 .. MaxSN

\* values handed to c_add_wlsb and c_get_k_wlsb: both ends of the 32-bit range
Values == {U32Zero, U32One, <<65535, 65534>>, U32Max}

\* the value a caller transmits with sequence number sn
ValueOf(sn) ==
    IF sn % 4 = 1 THEN U32Zero
    ELSE IF sn % 4 = 2 THEN U32Max
    ELSE IF sn % 4 = 3 THEN <<65535, 65534>>
    ELSE U32One

\* shift parameters handed to c_create_wlsb
Shifts == {-1, 0, 1}

NoIndex == -1
NoBits == -1

\* ------------------------------------------------------------------------
\* The interval function f of interval.c (RFC 3095, 4.5.1):
\* f(v_ref, k) = [v_ref - p, v_ref + (2^k - 1) - p], computed on uint32_t
\* ------------------------------------------------------------------------

f(v_ref, k, shift) ==
    [min |-> U32Sub(v_ref, U32FromInt32(shift)),
     max |-> U32Sub(U32Add(v_ref, U32Sub(U32Pow2(k), U32One)),
                    U32FromInt32(shift))]

\* ------------------------------------------------------------------------
\* g: the least k < bits_nr with min <= v <= max, or bits_nr
\* ------------------------------------------------------------------------

\* the test of the loop body of g
g_fits(v_ref, v, shift, k) ==
    LET i == f(v_ref, k, shift)
    IN  U32Le(i.min, v) /\ U32Le(v, i.max)

RECURSIVE g_loop(_, _, _, _, _)
g_loop(v_ref, v, shift, bits_nr, k) ==
    IF k < bits_nr
    THEN IF g_fits(v_ref, v, shift, k)
         THEN k
         ELSE g_loop(v_ref, v, shift, bits_nr, k + 1)
    ELSE k

\* g with the loop bound "k <= bits_nr": one step too far
g_one_more(v_ref, v, shift, bits_nr) == g_loop(v_ref, v, shift, bits_nr + 1, 0)

g(v_ref, v, shift, bits_nr) == g_loop(v_ref, v, shift, bits_nr, 0)

\* ------------------------------------------------------------------------
\* c_get_k_wlsb: the scan of the window and the two searches
\* ------------------------------------------------------------------------

\* valid taken from the first entry alone
get_k_valid_first(win, width) == win[0].is_used

\* the variable valid after the scan
get_k_valid(win, width) == \E e \in 0 .. width - 1 : win[e].is_used

\* a scan for min that also reads the entries that are not in use
RECURSIVE get_k_min_stale(_, _)
get_k_min_stale(win, e) ==
    IF e = 0 THEN U32Max
    ELSE LET m == get_k_min_stale(win, e - 1)
         IN  IF U32Lt(win[e - 1].value, m) THEN win[e - 1].value ELSE m

\* the variable min after the scan of entries 0 .. e - 1
RECURSIVE get_k_min(_, _)
get_k_min(win, e) ==
    IF e = 0 THEN U32Max
    ELSE LET m == get_k_min(win, e - 1)
         IN  IF win[e - 1].is_used /\ U32Lt(win[e - 1].value, m)
             THEN win[e - 1].value ELSE m

\* the variable max after the scan of entries 0 .. e - 1
RECURSIVE get_k_max(_, _)
get_k_max(win, e) ==
    IF e = 0 THEN U32Zero
    ELSE LET m == get_k_max(win, e - 1)
         IN  IF win[e - 1].is_used /\ U32Lt(m, win[e - 1].value)
             THEN win[e - 1].value ELSE m

\* c_get_k_wlsb keeping the smaller of k1 and k2
get_k_smallest(win, width, shift, nbits, value) ==
    IF get_k_valid(win, width)
    THEN LET k1 == g(get_k_min(win, width), value, shift, nbits)
             k2 == g(get_k_max(win, width), value, shift, nbits)
         IN  [is_success |-> 1, bits_nr |-> IF k1 > k2 THEN k2 ELSE k1]
    ELSE [is_success |-> 0, bits_nr |-> NoBits]

\* the pair (return value, *bits_nr); *bits_nr is NoBits when the function
\* returns without writing to it
get_k(win, width, shift, nbits, value) ==
    IF get_k_valid(win, width)
    THEN LET k1 == g(get_k_min(win, width), value, shift, nbits)
             k2 == g(get_k_max(win, width), value, shift, nbits)
         IN  [is_success |-> 1, bits_nr |-> IF k1 > k2 THEN k1 ELSE k2]
    ELSE [is_success |-> 0, bits_nr |-> NoBits]

\* ------------------------------------------------------------------------
\* c_sum_wlsb and c_mean_wlsb: "int sum", "sum += s->window[i].value"
\* ------------------------------------------------------------------------

\* the int an unsigned 32-bit value converts to (two's complement)
IntFromU32(u) ==
    IF u[1] >= 32768 THEN (u[1] - Half) * Half + u[2] ELSE u[1] * Half + u[2]

\* the variable sum after the loop over entries 0 .. e - 1, as the 32 bits
\* it holds: the addition is made on unsigned int, modulo 2^32
RECURSIVE sum_bits(_, _)
sum_bits(win, e) ==
    IF e = 0 THEN U32Zero
    ELSE IF win[e - 1].is_used
         THEN U32Add(sum_bits(win, e - 1), win[e - 1].value)
         ELSE sum_bits(win, e - 1)

\* the variable num after the loop over entries 0 .. e - 1
RECURSIVE mean_num(_, _)
mean_num(win, e) ==
    IF e = 0 THEN 0
    ELSE mean_num(win, e - 1) + (IF win[e - 1].is_used THEN 1 ELSE 0)

\* a / n of C for int a and n > 0: the quotient is truncated towards zero
IntDiv(a, n) ==
    IF a >= 0 THEN a \div n
    ELSE LET b == -(a + 1)
         IN  -((b \div n) + (IF b % n = n - 1 THEN 1 ELSE 0))

\* the value c_sum_wlsb returns
sum_wlsb(win, width) == IntFromU32(sum_bits(win, width))

\* the value c_mean_wlsb returns
mean_wlsb(win, width) ==
    IF mean_num(win, width) > 0
    THEN IntDiv(IntFromU32(sum_bits(win, width)), mean_num(win, width))
    ELSE 0

\* ------------------------------------------------------------------------
\* c_ack_sn_wlsb: the search of the entry, from the oldest one
\* ------------------------------------------------------------------------

\* the test of the search without is_used
ack_match_stale(win, i, sn) == win[i].sn = sn

\* the test both loops of the search make
ack_match(win, i, sn) == win[i].is_used /\ win[i].sn = sn

\* the index the two loops stop at, NoIndex when found stays 0
ack_find(win, width, old, sn) ==
    IF \E i \in old .. width - 1 : ack_match(win, i, sn)
    THEN CHOOSE i \in old .. width - 1 :
             /\ ack_match(win, i, sn)
             /\ \A j \in old .. i - 1 : ~ack_match(win, j, sn)
    ELSE IF \E i \in 0 .. old - 1 : ack_match(win, i, sn)
    THEN CHOOSE i \in 0 .. old - 1 :
             /\ ack_match(win, i, sn)
             /\ \A j \in 0 .. i - 1 : ~ack_match(win, j, sn)
    ELSE NoIndex

\* ------------------------------------------------------------------------
\* c_ack_remove
\* ------------------------------------------------------------------------

\* the three branches with loops that run up to and including index
ack_remove_slots_incl(width, old, index) ==
    IF old = index THEN {old}
    ELSE IF old < index THEN old .. index
    ELSE (old .. width - 1) \cup (0 .. index)

\* the slots the three branches mark as not in use
ack_remove_slots(width, old, index) ==
    IF old = index THEN {old}
    ELSE IF old < index THEN old .. index - 1
    ELSE (old .. width - 1) \cup (0 .. index - 1)

\* the window after the branches when index == oldest is handled by the
\* wrap-around branch, as if the test were s->oldest >= index
ack_remove_window_wrap(win, width, old, index) ==
    [j \in 0 .. width - 1 |->
        IF j \in (IF old < index THEN old .. index - 1
                  ELSE (old .. width - 1) \cup (0 .. index - 1))
        THEN [win[j] EXCEPT !.is_used = FALSE]
        ELSE win[j]]

\* the window after the three branches
ack_remove_window(win, width, old, index) ==
    [j \in 0 .. width - 1 |->
        IF j \in ack_remove_slots(width, old, index)
        THEN [win[j] EXCEPT !.is_used = FALSE]
        ELSE win[j]]

\* "fix the s->oldest pointer"
ack_remove_oldest(width, index) ==
    IF index >= width - 1 THEN 0
    ELSE IF index >= width THEN 0 ELSE index

\* how many times a loop "for(j = from; j < to; j++)" of "fix the s->next
\* pointer" increments s->next before it breaks or ends
RECURSIVE ack_remove_run(_, _, _)
ack_remove_run(win, from, to) ==
    IF from < to /\ win[from].is_used
    THEN 1 + ack_remove_run(win, from + 1, to)
    ELSE 0

\* "fix the s->next pointer" with increments that do not wrap
ack_remove_next_nowrap(win, width, old) ==
    old + ack_remove_run(win, old, width) + ack_remove_run(win, 0, old)

\* "fix the s->next pointer": both loops run, the second one also after
\* the first one broke
ack_remove_next(win, width, old) ==
    (old + ack_remove_run(win, old, width) + ack_remove_run(win, 0, old))
        % width

\* the encoder after c_ack_remove(s, index)
ack_remove(win, width, old, index) ==
    LET w == ack_remove_window(win, width, old, index)
        o == ack_remove_oldest(width, index)
    IN  [window |-> w, oldest |-> o, next |-> ack_remove_next(w, width, o)]

\* ------------------------------------------------------------------------
\* State
\* ------------------------------------------------------------------------

VARIABLES
    window_width,   \* struct c_wlsb: number of entries of the window
    bits,           \* struct c_wlsb: maximal number of bits
    p,              \* struct c_wlsb: shift parameter
    window,         \* struct c_wlsb: the entries, [sn, value, is_used]
    oldest,         \* struct c_wlsb: index of the oldest entry
    next,           \* struct c_wlsb: index of the next entry to write
    op,             \* history: the call just made and what it returned
    ord,            \* history: per slot, the rank of the insert that wrote it
    nins,           \* history: number of c_add_wlsb calls so far
    acked,          \* history: c_ack_sn_wlsb was called at least once
    hist            \* history: the pairs inserted while acked is FALSE

enc == <<window_width, bits, p, window, oldest, next>>
vars == <<window_width, bits, p, window, oldest, next, op,
          ord, nins, acked, hist>>

Slots == 0 .. window_width - 1

\* the rank in h of the first pair that carries sn, 0 when there is none
FirstRank(h, sn) ==
    IF \E i \in 1 .. Len(h) : h[i][1] = sn
    THEN CHOOSE i \in 1 .. Len(h) :
             h[i][1] = sn /\ \A j \in 1 .. i - 1 : h[j][1] # sn
    ELSE 0

\* the record of a call; fields a call does not have keep these values
NoOp ==
    [name |-> "create", sn |-> 0, value |-> U32Zero, found |-> FALSE,
     index |-> NoIndex, at_oldest |-> FALSE, fresh |-> FALSE, rank |-> 0,
     ret |-> 0, bits_nr |-> NoBits]

\* ------------------------------------------------------------------------
\* c_create_wlsb
\* ------------------------------------------------------------------------

Init ==
    /\ window_width \in 1 .. MaxWidth
    /\ bits \in {1, MaxBits}
    /\ p \in Shifts
    /\ window = [e \in 0 .. window_width - 1 |->
                    [sn |-> 0, value |-> U32Zero, is_used |-> FALSE]]
    /\ oldest = 0
    /\ next = 0
    /\ op = NoOp
    /\ ord = [e \in 0 .. window_width - 1 |-> 0]
    /\ nins = 0
    /\ acked = FALSE
    /\ hist = <<>>

\* ------------------------------------------------------------------------
\* c_add_wlsb
\* ------------------------------------------------------------------------

\* s->oldest left alone when an entry is overwritten
add_oldest_stuck(win, width, old, nxt) == old

\* s->oldest after "if window is full, an entry is overwritten"
add_oldest(win, width, old, nxt) ==
    IF win[nxt].is_used THEN (old + 1) % width ELSE old

\* s->next stopping at the last slot instead of wrapping
add_next_clamped(width, nxt) == IF nxt + 1 < width THEN nxt + 1 ELSE nxt

\* s->next after the insertion
add_next(width, nxt) == (nxt + 1) % width

c_add_wlsb(sn, value) ==
    /\ nins < MaxInserts
    /\ next < window_width                      \* assert()
    /\ oldest' = add_oldest(window, window_width, oldest, next)
    /\ window' = [window EXCEPT ![next] =
                     [sn |-> sn, value |-> value, is_used |-> TRUE]]
    /\ next' = add_next(window_width, next)
    /\ ord' = [ord EXCEPT ![next] = nins + 1]
    /\ nins' = nins + 1
    /\ hist' = IF acked THEN hist ELSE Append(hist, <<sn, value>>)
    /\ op' = [NoOp EXCEPT !.name = "add", !.sn = sn, !.value = value,
                          !.index = next]
    /\ UNCHANGED <<window_width, bits, p, acked>>

\* ------------------------------------------------------------------------
\* c_get_k_wlsb
\* ------------------------------------------------------------------------

c_get_k_wlsb(value) ==
    LET r == get_k(window, window_width, p, bits, value)
    IN  /\ op' = [NoOp EXCEPT !.name = "get_k", !.value = value,
                              !.ret = r.is_success,
                              !.bits_nr = r.bits_nr]
        /\ UNCHANGED <<enc, ord, nins, acked, hist>>

\* ------------------------------------------------------------------------
\* c_sum_wlsb and c_mean_wlsb
\* ------------------------------------------------------------------------

\* a sum that consumes the entries it adds up
c_sum_wlsb_drain ==
    /\ op' = [NoOp EXCEPT !.name = "sum",
                          !.ret = sum_wlsb(window, window_width)]
    /\ window' = [j \in Slots |-> [window[j] EXCEPT !.is_used = FALSE]]
    /\ UNCHANGED <<window_width, bits, p, oldest, next>>
    /\ UNCHANGED <<ord, nins, acked, hist>>

c_sum_wlsb ==
    /\ op' = [NoOp EXCEPT !.name = "sum",
                          !.ret = sum_wlsb(window, window_width)]
    /\ UNCHANGED <<enc, ord, nins, acked, hist>>

c_mean_wlsb ==
    /\ op' = [NoOp EXCEPT !.name = "mean",
                          !.ret = mean_wlsb(window, window_width)]
    /\ UNCHANGED <<enc, ord, nins, acked, hist>>

\* ------------------------------------------------------------------------
\* c_ack_sn_wlsb
\* ------------------------------------------------------------------------

c_ack_sn_wlsb(sn) ==
    LET i == ack_find(window, window_width, oldest, sn)
        r == IF i # NoIndex
             THEN ack_remove(window, window_width, oldest, i)
             ELSE [window |-> window, oldest |-> oldest, next |-> next]
    IN  /\ window' = r.window
        /\ oldest' = r.oldest
        /\ next' = r.next
        /\ acked' = TRUE
        /\ hist' = <<>>
        /\ op' = [NoOp EXCEPT
                    !.name = "ack", !.sn = sn, !.found = (i # NoIndex),
                    !.index = i, !.at_oldest = (i = oldest),
                    !.fresh = ~acked, !.rank = FirstRank(hist, sn)]
        /\ UNCHANGED <<window_width, bits, p, ord, nins>>

\* ------------------------------------------------------------------------
\* Specification
\* ------------------------------------------------------------------------

Next ==
    \/ \E sn \in SNs : c_add_wlsb(sn, ValueOf(sn))
    \/ \E value \in Values : c_get_k_wlsb(value)
    \/ \E sn \in SNs : c_ack_sn_wlsb(sn)
    \/ c_sum_wlsb
    \/ c_mean_wlsb

Spec == Init /\ [][Next]_vars

\* ------------------------------------------------------------------------
\* Type correctness of the model
\* ------------------------------------------------------------------------

TypeOK ==
    /\ window_width \in 1 .. MaxWidth
    /\ bits \in {1, MaxBits}
    /\ p \in Shifts
    /\ DOMAIN window = Slots
    /\ \A e \in Slots : /\ window[e].sn \in 0 .. 65535
                        /\ window[e].value \in (0 .. 65535) \X (0 .. 65535)
                        /\ window[e].is_used \in BOOLEAN
    /\ nins \in 0 .. MaxInserts
    /\ acked \in BOOLEAN

\* ------------------------------------------------------------------------
\* Definitions the properties share
\* ------------------------------------------------------------------------

Used == {e \in Slots : window[e].is_used}
UsedSNs == {window[e].sn : e \in Used}
UsedValues == {window[e].value : e \in Used}

\* the slots whose entry was marked as not in use and not written since
Pruned == {e \in Slots : ~window[e].is_used /\ ord[e] > 0}

\* minimum and maximum of the values of the entries in use
MinRef == CHOOSE v \in UsedValues : \A u \in UsedValues : U32Le(v, u)
MaxRef == CHOOSE v \in UsedValues : \A u \in UsedValues : U32Le(u, v)

\* lo <= v <= hi for (lo, hi) = f(v_ref, k, p), the test g makes
Inside(v, v_ref, k) ==
    U32Le(f(v_ref, k, p).min, v) /\ U32Le(v, f(v_ref, k, p).max)

\* v is one of the 2^k values f(v_ref, k, p) starts with, modulo 2^32
InsideMod(v, v_ref, k) ==
    U32Le(U32Sub(v, f(v_ref, k, p).min), U32Sub(U32Pow2(k), U32One))

Min(a, b) == IF a < b THEN a ELSE b

\* the sequence numbers of h are pairwise distinct
DistinctSNs(h) ==
    \A i, j \in 1 .. Len(h) : i # j => h[i][1] # h[j][1]

\* ------------------------------------------------------------------------
\* C1
\* ------------------------------------------------------------------------

\* C1: in every reachable state the slots in use form one run that starts
\* at oldest: walking forward circularly from oldest, no slot in use comes
\* after a slot that is not in use.
C1_ContiguousRun ==
    \A i, j \in 0 .. window_width - 1 :
        (i < j /\ window[(oldest + j) % window_width].is_used)
            => window[(oldest + i) % window_width].is_used

\* ------------------------------------------------------------------------
\* C2
\* ------------------------------------------------------------------------

\* C2: when c_ack_sn_wlsb(sn) matched an entry that was not at oldest, the
\* call c_ack_sn_wlsb(sn) that follows it at once finds the entry again and
\* leaves window, oldest and next as they are.
C2_AckIdempotent ==
    [][(/\ op.name = "ack" /\ op.found /\ ~op.at_oldest
        /\ op'.name = "ack" /\ op'.sn = op.sn)
       => (/\ op'.found
           /\ window' = window /\ oldest' = oldest /\ next' = next)]_vars

\* ------------------------------------------------------------------------
\* C3
\* ------------------------------------------------------------------------

\* the first acknowledge of a window filled by inserts only, matching at an
\* index other than oldest, marks exactly the entries inserted before the
\* matched one (the slots from oldest up to index, walking circularly) and
\* leaves every other slot as it is
C3_PrunesOlder ==
    (/\ ~acked /\ op'.name = "ack" /\ op'.found /\ ~op'.at_oldest)
    => /\ \A e \in Slots :
            window'[e] =
                IF window[e].is_used /\ ord[e] < ord[op'.index]
                THEN [window[e] EXCEPT !.is_used = FALSE]
                ELSE window[e]
       /\ {e \in Slots : window[e].is_used /\ ~window'[e].is_used}
            = {(oldest + d) % window_width :
                 d \in 0 .. ((op'.index - oldest + window_width)
                                % window_width) - 1}
       /\ window'[op'.index].is_used
       /\ window'[op'.index].sn = op'.sn

\* op is such a first acknowledge and the step acknowledges the sequence
\* number of an entry it removed
C3_AckOfRemoved ==
    /\ op.name = "ack" /\ op.fresh /\ op.found /\ ~op.at_oldest
    /\ op'.name = "ack"
    /\ op'.sn \in {window[e].sn : e \in Pruned}

\* C3 as claimed: ... and afterwards the acknowledge of a removed entry's
\* sequence number finds nothing.
C3_Original ==
    [][/\ C3_PrunesOlder
       /\ C3_AckOfRemoved => ~op'.found]_vars

\* C3 as amended: ... and afterwards the acknowledge of a removed entry's
\* sequence number finds nothing, unless an entry that was kept carries the
\* same sequence number.
C3_AckPrunesOlder ==
    [][/\ C3_PrunesOlder
       /\ (C3_AckOfRemoved /\ op'.sn \notin UsedSNs) => ~op'.found]_vars

\* a first acknowledge has removed two entries of a window of three
C3_Witness ==
    /\ op.name = "ack" /\ op.fresh /\ op.found /\ ~op.at_oldest
    /\ window_width = 3
    /\ Cardinality(Pruned) = 2
    /\ Used = {op.index}

\* ------------------------------------------------------------------------
\* C4
\* ------------------------------------------------------------------------

\* C4: c_ack_sn_wlsb(sn) with an sn that no entry in use carries leaves
\* oldest, next and every slot's sn, value and is_used as they are.
C4_UnmatchedAckNoOp ==
    [][(op'.name = "ack" /\ op'.sn \notin UsedSNs)
       => (window' = window /\ oldest' = oldest /\ next' = next)]_vars

\* an acknowledge found nothing for a sequence number that a pruned slot
\* still carries
C4_Witness ==
    /\ op.name = "ack" /\ ~op.found
    /\ \E e \in Pruned : window[e].sn = op.sn
    /\ Used # {}

\* ------------------------------------------------------------------------
\* C5
\* ------------------------------------------------------------------------

\* C5: after window_width + 1 inserts of pairwise distinct sequence numbers
\* and no acknowledge, the acknowledge of the first inserted sequence number
\* finds no entry and changes nothing.
C5_FirstInsertedEvicted ==
    [][(/\ ~acked /\ Len(hist) = window_width + 1 /\ DistinctSNs(hist)
        /\ op'.name = "ack" /\ op'.sn = hist[1][1])
       => (/\ ~op'.found
           /\ window' = window /\ oldest' = oldest /\ next' = next)]_vars

\* the first of window_width + 1 distinct sequence numbers was acknowledged
C5_Witness ==
    /\ op.name = "ack" /\ op.fresh /\ op.rank = 1 /\ ~op.found
    /\ nins = window_width + 1
    /\ window_width >= 2
    /\ Cardinality(UsedSNs) = window_width
    /\ op.sn \notin UsedSNs

\* ------------------------------------------------------------------------
\* C6
\* ------------------------------------------------------------------------

\* C6: after n inserts and no acknowledge, min(n, window_width) entries are
\* in use, they are the last min(n, window_width) pairs inserted,
\* next = n mod window_width, and from n = window_width on the slot oldest
\* holds the earliest inserted of them.
C6_InsertOnly ==
    ~acked =>
        LET n == nins
            m == Min(n, window_width)
        IN  /\ Len(hist) = n
            /\ Cardinality(Used) = m
            /\ Cardinality(Used) <= window_width
            /\ {ord[e] : e \in Used} = (n - m + 1) .. n
            /\ \A e \in Used :
                   <<window[e].sn, window[e].value>> = hist[ord[e]]
            /\ next = n % window_width
            /\ n >= window_width =>
                   /\ window[oldest].is_used
                   /\ ord[oldest] = n - window_width + 1

\* a window of at least two slots has wrapped
C6_Witness ==
    /\ ~acked /\ op.name = "add"
    /\ window_width >= 2
    /\ nins > window_width
    /\ oldest # 0

\* ------------------------------------------------------------------------
\* C7
\* ------------------------------------------------------------------------

\* C7: in every reachable state 0 <= oldest < window_width and
\* 0 <= next < window_width, so the assertion of c_add_wlsb holds.
C7_IndicesInRange ==
    /\ oldest \in 0 .. window_width - 1
    /\ next \in 0 .. window_width - 1

\* an acknowledge matched the last slot, away from oldest, and set oldest
\* to slot 0, which is in use
C7_Witness ==
    /\ op.name = "ack" /\ op.found /\ ~op.at_oldest
    /\ op.index = window_width - 1
    /\ oldest = 0 /\ window[0].is_used /\ next # 0

\* ------------------------------------------------------------------------
\* C8
\* ------------------------------------------------------------------------

\* C8: c_get_k_wlsb fails exactly when no slot is in use.
C8_FailsIffEmpty ==
    op.name = "get_k" => (op.ret = 0 <=> Used = {}) /\ op.ret \in {0, 1}

\* c_get_k_wlsb failed on a window that acknowledges have emptied
C8_Witness ==
    /\ op.name = "get_k" /\ op.ret = 0
    /\ acked /\ nins > 0

\* ------------------------------------------------------------------------
\* C9
\* ------------------------------------------------------------------------

\* C9: on a window that is not empty c_get_k_wlsb succeeds with
\* 0 <= bits_nr <= bits, and bits_nr = bits when for the minimum or the
\* maximum of the window no k < bits puts the value inside f.
C9_Saturation ==
    (op.name = "get_k" /\ Used # {}) =>
        /\ op.ret = 1
        /\ op.bits_nr \in 0 .. bits
        /\ (\E r \in {MinRef, MaxRef} :
               \A k \in 0 .. bits - 1 : ~Inside(op.value, r, k))
           => op.bits_nr = bits

\* the search saturated for the maximum only
C9_Witness ==
    /\ op.name = "get_k" /\ op.ret = 1 /\ op.bits_nr = bits
    /\ Used # {}
    /\ \E k \in 0 .. bits - 1 : Inside(op.value, MinRef, k)
    /\ \A k \in 0 .. bits - 1 : ~Inside(op.value, MaxRef, k)

\* ------------------------------------------------------------------------
\* C10
\* ------------------------------------------------------------------------

LeastK(v_ref, v) ==
    IF \E k \in 0 .. bits - 1 : Inside(v, v_ref, k)
    THEN CHOOSE k \in 0 .. bits - 1 :
             Inside(v, v_ref, k) /\ \A j \in 0 .. k - 1 : ~Inside(v, v_ref, j)
    ELSE bits

Max(a, b) == IF a > b THEN a ELSE b

\* C11: on a window that is not empty c_get_k_wlsb(value) gives
\* bits_nr = max(g(min_ref), g(max_ref)), min_ref and max_ref being the
\* minimum and the maximum of the values in use wherever their slots are;
\* a window of the single value V gives 0 for V when f(V, 0, p) contains V.
C11_MaxOfExtremes ==
    (op.name = "get_k" /\ Used # {}) =>
        /\ op.bits_nr = Max(LeastK(MinRef, op.value), LeastK(MaxRef, op.value))
        /\ (UsedValues = {op.value} /\ Inside(op.value, op.value, 0))
           => op.bits_nr = 0

\* the width was computed while a pruned slot held a value above the
\* maximum of the values in use, and it is neither 0 nor bits
C11_Witness ==
    /\ op.name = "get_k" /\ op.ret = 1
    /\ Cardinality(UsedValues) >= 2
    /\ \E e \in Pruned : U32Lt(window[e].value, MinRef)
    /\ op.bits_nr > 0 /\ op.bits_nr < bits

\* ------------------------------------------------------------------------
\* C12
\* ------------------------------------------------------------------------

\* C12: a c_ack_sn_wlsb that finds a match never marks as not in use an
\* entry inserted after the matched one, and leaves no entry in use that
\* was inserted before the matched one.
C12_PrunesOnlyOlder ==
    [][(op'.name = "ack" /\ op'.found) =>
          /\ \A e \in Slots :
                (window[e].is_used /\ ord[e] > ord[op'.index])
                    => window'[e].is_used
          /\ \A e \in Slots :
                window'[e].is_used => ord[e] >= ord[op'.index]]_vars

\* ------------------------------------------------------------------------
\* C13
\* ------------------------------------------------------------------------

\* the sums of the high and of the low halves of the values in use, over
\* entries 0 .. e - 1
RECURSIVE SumHi(_)
SumHi(e) ==
    IF e = 0 THEN 0
    ELSE SumHi(e - 1) + (IF window[e - 1].is_used
                         THEN window[e - 1].value[1] ELSE 0)

RECURSIVE SumLo(_)
SumLo(e) ==
    IF e = 0 THEN 0
    ELSE SumLo(e - 1) + (IF window[e - 1].is_used
                         THEN window[e - 1].value[2] ELSE 0)

\* the arithmetic sum of the values in use is TotalHi * 2^16 + TotalLo
TotalHi == SumHi(window_width) + (SumLo(window_width) \div Half)
TotalLo == SumLo(window_width) % Half

\* the int r is the number hi * 2^16 + lo
IntIs(r, hi, lo) == hi < 32768 /\ r = hi * Half + lo

\* C13: c_sum_wlsb returns the arithmetic sum of the values in use, and
\* c_mean_wlsb that sum divided by the number of entries in use, 0 when
\* there is none.
C13_SumAndMean ==
    /\ op.name = "sum" => IntIs(op.ret, TotalHi, TotalLo)
    /\ op.name = "mean" =>
         LET n == Cardinality(Used)
         IN  IF n = 0 THEN op.ret = 0
             ELSE IntIs(op.ret, TotalHi \div n,
                        ((TotalHi % n) * Half + TotalLo) \div n)

\* ------------------------------------------------------------------------
\* C14
\* ------------------------------------------------------------------------

\* C14: a c_ack_sn_wlsb that matches at an index other than oldest (the
\* last slot of the buffer included) keeps the matched entry as the new
\* oldest: after the call the slot at oldest is in use and holds the sn and
\* the value of the matched entry.
C14_MatchedBecomesOldest ==
    [][(op'.name = "ack" /\ op'.found /\ ~op'.at_oldest) =>
          /\ window'[oldest'].is_used
          /\ window'[oldest'].sn = window[op'.index].sn
          /\ window'[oldest'].value = window[op'.index].value]_vars

\* ------------------------------------------------------------------------
\* C15
\* ------------------------------------------------------------------------

\* the offsets from oldest, walking forward circularly, of the free slots
FreeOffsets ==
    {d \in 0 .. window_width - 1 :
        ~window[(oldest + d) % window_width].is_used}

\* the first free slot met from oldest, or oldest when no slot is free
FirstFree ==
    IF FreeOffsets = {} THEN oldest
    ELSE (oldest + (CHOOSE d \in FreeOffsets :
                       \A c \in FreeOffsets : d <= c)) % window_width

\* C15: after a c_ack_sn_wlsb that found a match, next is the first slot
\* not in use met when walking forward circularly from the new oldest, or
\* oldest when every slot is in use; so the slot at next is not in use
\* whenever some slot is free.
C15_NextIsFirstFree ==
    (op.name = "ack" /\ op.found) =>
        /\ next = FirstFree
        /\ Used # Slots => ~window[next].is_used

\* ------------------------------------------------------------------------
\* C16
\* ------------------------------------------------------------------------

\* C16: in every reachable state the slot at next is in use only if every
\* slot of the window is in use, and then next = oldest.
C16_NextUsedOnlyWhenFull ==
    window[next].is_used => (Used = Slots /\ next = oldest)

\* ------------------------------------------------------------------------
\* C17
\* ------------------------------------------------------------------------

\* C17: when several entries in use carry the acknowledged sn, the entry
\* c_ack_sn_wlsb matches is the one of them that was inserted first.
C17_MatchesEarliest ==
    [][(op'.name = "ack" /\ op'.found) =>
          \A e \in Slots :
              (window[e].is_used /\ window[e].sn = op'.sn) =>
                  ord[op'.index] <= ord[e]]_vars


\* ------------------------------------------------------------------------
\* C18
\* ------------------------------------------------------------------------

\* C18: a c_ack_sn_wlsb that matches the entry at slot oldest marks that
\* slot, and no other, as not in use: every other slot keeps its sn, value
\* and is_used, and the number of entries in use drops by one.
C18_OnlyOldestEvicted ==
    [][(op'.name = "ack" /\ op'.found /\ op'.at_oldest) =>
          /\ op'.index = oldest
          /\ window[oldest].is_used /\ ~window'[oldest].is_used
          /\ \A e \in Slots \ {oldest} : window'[e] = window[e]
          /\ Cardinality({e \in Slots : window'[e].is_used})
                 = Cardinality(Used) - 1]_vars

\* the oldest entry was acknowledged and evicted, other entries are left
C18_Witness ==
    /\ op.name = "ack" /\ op.found /\ op.at_oldest
    /\ ~window[op.index].is_used
    /\ Cardinality(Used) >= 2

\* ------------------------------------------------------------------------
\* C19
\* ------------------------------------------------------------------------

\* the calls that only read the window
Queries == {"get_k", "sum", "mean"}

\* C19: c_get_k_wlsb, c_sum_wlsb and c_mean_wlsb are pure queries: they
\* leave oldest, next, bits, p, window_width and every slot unchanged, and
\* a call that directly follows the same call with the same argument
\* returns the same result.
C19_QueriesArePure ==
    [][(op'.name \in Queries) =>
          /\ window' = window
          /\ oldest' = oldest /\ next' = next
          /\ bits' = bits /\ p' = p /\ window_width' = window_width
          /\ (op.name = op'.name /\ op.value = op'.value) =>
                 (op'.ret = op.ret /\ op'.bits_nr = op.bits_nr)]_vars

\* a query was answered on a window that holds entries and was pruned
C19_Witness ==
    /\ op.name \in Queries
    /\ acked /\ Pruned # {}
    /\ Cardinality(Used) >= 2
    /\ op.ret # 0

====
